---- MODULE Spec2Model ----
(***************************************************************************)
(* The CoScale Kubernetes autoscaler (src/src/autoscaler.py).              *)
(*                                                                         *)
(* run_scalers builds one Scaler per configuration item, runs each once    *)
(* and hands them to a single sched.scheduler; the scheduler thread is the *)
(* only thread of the program.  A Scaler.run makes up to three blocking    *)
(* external calls: the metric fetch (CoScale CLI), the replica-count read  *)
(* and the replica-count write (Kubernetes API).  The model has one state  *)
(* per blocking call in flight; the code between two blocking calls is one *)
(* step.  Time is discrete.  `clock` is the scheduler's time.monotonic();  *)
(* the wall clock time.time() read by the Scaler is clock + Epoch (no      *)
(* wall-clock adjustment happens while the program runs).                  *)
(***************************************************************************)
EXTENDS Integers, Sequences, FiniteSets, TLC

(***************************************************************************)
(* Bounds of the model.                                                    *)
(***************************************************************************)
MaxTargets == 2
MaxTime == 4
MaxSamples == 2
interval == 2
low_value == 2
high_value == 4
min_replicas == 1
max_replicas == 2

Backoffs == {0, interval + 1}
MaxBackoff == interval + 1
\* time.time() is seconds since 1970: far more than any configured backoff
Epoch == MaxBackoff + 1
Values == {1, 3, 5}
K8sInit == {min_replicas}
\* the replica counts another actor may set: also two beyond max_replicas
MaxK8s == max_replicas + 2

\* Python's None, for values that are numbers otherwise
None == -1
Unset == -1
Idle == "idle"

VARIABLES
    config,        \* the list of target specifications (never changes)
    k8s,           \* the replica count of each target's deployment in Kubernetes
    clock,         \* time.monotonic()
    pc,            \* "init" (loop of run_scalers), "eval" (a blocking call of
                   \* Scaler.run is in flight), "sched" (scheduler.run), "exit"
    idx,           \* the item the loop of run_scalers is at
    constructed,   \* the items whose Scaler was constructed
    failed,        \* the items whose construction raised
    last_scaling,  \* Scaler.last_scaling of each item (Unset before construction)
    queue,         \* the scheduler's pending events, in order of entry
    cur,           \* the scaler of the current (or last) run, 0 before the first
    ret,           \* where the current run was called from: "init" or "sched"
    phase,         \* the blocking call in flight: "fetch", "read", "write"
    now,           \* time.time() as read at the start of the run
    current_value, \* what metric_value returned in this run (None before)
    shape,         \* <<windows, samples of the first window>> of the metric
                   \* data fetched in this run
    replicas,      \* what current_replicas returned in this run (None before)
    written,       \* body.spec.replicas of this run's write (None before)
    calls,         \* the external calls of this run, in order
    outcome,       \* "running", or how the run ended
    doneAt,        \* clock when the run ended (Unset while running)
    scaleStart,    \* per item: start time of its latest successfully scaling run
    lastWrite      \* per item: time.time() when its latest successful write returned

vars == <<config, k8s, clock, pc, idx, constructed, failed, last_scaling, queue, cur, ret,
          phase, now, current_value, shape, replicas, written, calls, outcome,
          doneAt, scaleStart, lastWrite>>

runVars == <<cur, ret, phase, now, current_value, shape, replicas, written, calls,
             outcome, doneAt>>

Terminal == {"backoff", "nodata", "hold", "floor", "ceiling", "scaled", "failed"}

(***************************************************************************)
(* Inputs.                                                                 *)
(***************************************************************************)
Items == [backoff : Backoffs]

SeqsUpTo(S, n) == UNION {[1..m -> S] : m \in 0..n}

\* a window is a sequence of (timestamp, value) pairs
Windows == {[i \in DOMAIN vs |-> <<i, vs[i]>>] : vs \in SeqsUpTo(Values, MaxSamples)}
ShortWindows == {w \in Windows : Len(w) <= 1}
MetricDatas == {<<>>} \cup {<<w>> : w \in Windows}
                      \cup {<<w1, w2>> : w1 \in ShortWindows, w2 \in ShortWindows}

(***************************************************************************)
(* Clocks.                                                                 *)
(***************************************************************************)
monotonic == clock
time_time == clock + Epoch

(***************************************************************************)
(* Scaler: pure parts.                                                     *)
(***************************************************************************)
backoff(t) == config[t].backoff

\* InitialLastScaling of a Scaler that starts its life in backoff
InitialLastScalingNow == time_time

\* self.last_scaling as Scaler.__init__ sets it
InitialLastScaling == 0

\* InBackoff with the configured backoff left out of the test
InBackoffNoWait(nw, ls, bo) == ~(nw > ls)

\* InBackoff with the boundary on the other side: now == last + backoff runs
InBackoffStrict(nw, ls, bo) == nw < ls + bo

\* the test of Scaler.run: the else branch is "in backoff"; nw is time.time(),
\* ls is self.last_scaling, bo is self.backoff
InBackoff(nw, ls, bo) == ~(nw > ls + bo)

RECURSIVE SumValues(_)
SumValues(pairs) ==
    IF pairs = <<>> THEN 0 ELSE pairs[1][2] + SumValues(Tail(pairs))

\* Means are kept exact as multiples of 1/Unit: every window length divides Unit
RECURSIVE Factorial(_)
Factorial(n) == IF n <= 1 THEN 1 ELSE n * Factorial(n - 1)
Unit == Factorial(MaxSamples)

\* metric_value that only rejects an empty answer, and takes the first window
\* of an answer of several
metric_valueFirstWindow(data) ==
    IF Len(data) = 0 THEN None
    ELSE LET pairs == data[1] IN
         IF Len(pairs) = 0 THEN None
         ELSE (SumValues(pairs) * Unit) \div Len(pairs)

\* Scaler.metric_value: None, or the mean of the values (in 1/Unit)
metric_value(data) ==
    IF Len(data) # 1 THEN None
    ELSE LET pairs == data[1] IN
         IF Len(pairs) = 0 THEN None
         ELSE (SumValues(pairs) * Unit) \div Len(pairs)

\* BelowLow of a test that takes a mean equal to low_value for low
BelowLowOrEqual(v) == v <= low_value * Unit

\* AboveHigh of a test against the wrong threshold
AboveHighOfLow(v) == v > low_value * Unit

\* current_value < self.low_value, current_value > self.high_value
BelowLow(v) == v < low_value * Unit
AboveHigh(v) == v > high_value * Unit

\* CanScaleDown of a test that lets a deployment at min_replicas go down
CanScaleDownAtMin(n) == n >= min_replicas

\* replicas > self.min_replicas
CanScaleDown(n) == n > min_replicas

\* CanScaleUp of a test that lets a deployment at max_replicas go up
CanScaleUpAtMax(n) == n <= max_replicas

\* CanScaleUp of a Scaler that ignores max_replicas
CanScaleUpAlways(n) == TRUE

\* replicas < self.max_replicas
CanScaleUp(n) == n < max_replicas

\* ScaleDownTarget of a Scaler that steps down by two
ScaleDownTargetByTwo(n) == n - 2

\* the argument of self.scale on the low branch: replicas - 1
ScaleDownTarget(n) == n - 1

\* ScaleUpTarget of a Scaler that steps up by two
ScaleUpTargetByTwo(n) == n + 2

\* the argument of self.scale on the high branch: replicas + 1
ScaleUpTarget(n) == n + 1

ShapeOf(data) == <<Len(data), IF Len(data) >= 1 THEN Len(data[1]) ELSE 0>>

(***************************************************************************)
(* Scheduler: pure parts.                                                  *)
(***************************************************************************)
\* Enter of a run_and_schedule that forgets to schedule itself again
EnterNothing(q, t) == q

\* Enter of a scheduler with one timer slot: a new event replaces the pending ones
EnterReplacing(q, t) == <<[time |-> monotonic + interval, scaler |-> t]>>

\* scheduler.enter(interval, 1, run_and_schedule, (scaler, ...))
Enter(q, t) == Append(q, [time |-> monotonic + interval, scaler |-> t])

RemoveAt(q, k) == [i \in 1..(Len(q) - 1) |-> IF i < k THEN q[i] ELSE q[i + 1]]

\* the events scheduler.run may pop next: the earliest ones
Earliest(q) == {k \in DOMAIN q : \A j \in DOMAIN q : q[k].time <= q[j].time}

\* SchedulerFree of a scheduler that runs each action on a thread of its own
SchedulerThreaded == pc \in {"sched", "eval"}

\* scheduler.run runs in the thread that called it: it pops the next event
\* only when no action is executing
SchedulerFree == pc = "sched"


(***************************************************************************)
(* Initial state: run_scalers is about to enter its loop.                  *)
(***************************************************************************)
\* the program's own state when run_scalers is about to enter its loop
InitProgram ==
    /\ pc = "init"
    /\ idx = 1
    /\ constructed = {}
    /\ failed = {}
    /\ last_scaling = [i \in DOMAIN config |-> Unset]
    /\ queue = <<>>
    /\ cur = 0
    /\ ret = "init"
    /\ phase = Idle
    /\ now = Unset
    /\ current_value = None
    /\ shape = <<None, None>>
    /\ replicas = None
    /\ written = None
    /\ calls = <<>>
    /\ outcome = Idle
    /\ doneAt = Unset
    /\ scaleStart = [i \in DOMAIN config |-> 0]
    /\ lastWrite = [i \in DOMAIN config |-> 0]

Init ==
    /\ config \in SeqsUpTo(Items, MaxTargets)
    /\ k8s \in [DOMAIN config -> K8sInit]
    /\ clock = 0
    /\ InitProgram

\* one target, whose deployment has any replica count within its bounds
InitOne ==
    /\ config \in [{1} -> Items]
    /\ k8s \in [DOMAIN config -> min_replicas..max_replicas]
    /\ clock = 0
    /\ InitProgram

\* one target, whose deployment has any replica count
InitExt ==
    /\ config \in [{1} -> Items]
    /\ k8s \in [DOMAIN config -> 0..MaxK8s]
    /\ clock = 0
    /\ InitProgram

(***************************************************************************)
(* run_and_schedule.                                                       *)
(***************************************************************************)
\* where control goes when run_and_schedule returns
Resume(r) ==
    /\ pc' = r
    /\ idx' = IF r = "init" THEN idx + 1 ELSE idx

\* Finish with the re-arming after scaler.run() in the try block, not in finally
FinishNoFinally(t, r, q, o) ==
    /\ outcome' = o
    /\ doneAt' = monotonic
    /\ queue' = IF o = "failed" THEN q ELSE Enter(q, t)
    /\ phase' = Idle
    /\ Resume(r)

\* scaler.run() has returned or raised with outcome o: the finally clause
\* re-arms the scaler, the exception (if any) is logged and dropped
Finish(t, r, q, o) ==
    /\ outcome' = o
    /\ doneAt' = monotonic
    /\ queue' = Enter(q, t)
    /\ phase' = Idle
    /\ Resume(r)

\* run_and_schedule(t) is called from r with the queue being q and
\* t.last_scaling being ls: Scaler.run up to its first blocking call
StartRun(t, r, q, ls) ==
    /\ cur' = t
    /\ ret' = r
    /\ now' = time_time
    /\ current_value' = None
    /\ shape' = <<None, None>>
    /\ replicas' = None
    /\ written' = None
    /\ IF InBackoff(time_time, ls, backoff(t))
       THEN /\ calls' = <<>>
            /\ Finish(t, r, q, "backoff")
       ELSE /\ calls' = <<"fetch">>
            /\ outcome' = "running"
            /\ doneAt' = Unset
            /\ phase' = "fetch"
            /\ pc' = "eval"
            /\ queue' = q
            /\ idx' = idx

(***************************************************************************)
(* run_scalers.                                                            *)
(***************************************************************************)
\* AfterFailedInit with the try around the whole loop: the first failure ends it
AfterFailedInitAbort(i) == Len(config) + 1

\* the loop index after the except clause of the loop has logged a failure
AfterFailedInit(i) == i + 1

\* Scaler(item, ...) succeeds; run_and_schedule(scaler, ...)
ConstructOk ==
    /\ pc = "init"
    /\ idx \in DOMAIN config
    /\ constructed' = constructed \cup {idx}
    /\ last_scaling' = [last_scaling EXCEPT ![idx] = InitialLastScaling]
    /\ StartRun(idx, "init", queue, InitialLastScaling)
    /\ UNCHANGED <<config, k8s, clock, failed, scaleStart, lastWrite>>

\* Scaler(item, ...) raises: get_metric_by_name or get_server_group returned
\* None; the except clause of the loop logs it and the loop goes on
ConstructFail ==
    /\ pc = "init"
    /\ idx \in DOMAIN config
    /\ \E missing \in {"metric", "server group"} :
         idx' = AfterFailedInit(idx)
    /\ failed' = failed \cup {idx}
    /\ UNCHANGED <<config, k8s, clock, pc, constructed, last_scaling, queue,
                   runVars, scaleStart, lastWrite>>

\* the loop is over: scheduler.run()
EnterScheduler ==
    /\ pc = "init"
    /\ idx \notin DOMAIN config
    /\ pc' = "sched"
    /\ UNCHANGED <<config, k8s, clock, idx, constructed, failed, last_scaling, queue,
                   runVars, scaleStart, lastWrite>>

(***************************************************************************)
(* scheduler.run.                                                          *)
(***************************************************************************)
\* the next event is due: pop it and call run_and_schedule
SchedRun ==
    /\ SchedulerFree
    /\ \E k \in Earliest(queue) :
         /\ queue[k].time <= monotonic
         /\ StartRun(queue[k].scaler, "sched", RemoveAt(queue, k),
                     last_scaling[queue[k].scaler])
    /\ UNCHANGED <<config, k8s, clock, constructed, failed, last_scaling, scaleStart,
                   lastWrite>>

\* the queue is empty: scheduler.run returns, and so do run_scalers and main
SchedExit ==
    /\ pc = "sched"
    /\ queue = <<>>
    /\ pc' = "exit"
    /\ UNCHANGED <<config, k8s, clock, idx, constructed, failed, last_scaling, queue,
                   runVars, scaleStart, lastWrite>>

(***************************************************************************)
(* Scaler.run: the blocking calls return.                                  *)
(***************************************************************************)
\* get_metric_data raises (the CLI fails, or prints no JSON)
FetchFail ==
    /\ pc = "eval" /\ phase = "fetch"
    /\ Finish(cur, ret, queue, "failed")
    /\ UNCHANGED <<config, k8s, clock, constructed, failed, last_scaling, cur, ret, now,
                   current_value, shape, replicas, written, calls, scaleStart,
                   lastWrite>>

\* get_metric_data returns d; run goes on to its next blocking call or ends
FetchDone ==
    /\ pc = "eval" /\ phase = "fetch"
    /\ \E d \in MetricDatas :
         /\ shape' = ShapeOf(d)
         /\ current_value' = metric_value(d)
         /\ IF current_value' = None
            THEN /\ calls' = calls
                 /\ Finish(cur, ret, queue, "nodata")
            ELSE IF BelowLow(current_value') \/ AboveHigh(current_value')
            THEN /\ calls' = Append(calls, "read")
                 /\ phase' = "read"
                 /\ UNCHANGED <<pc, idx, queue, outcome, doneAt>>
            ELSE /\ calls' = calls
                 /\ Finish(cur, ret, queue, "hold")
    /\ UNCHANGED <<config, k8s, clock, constructed, failed, last_scaling, cur, ret, now,
                   replicas, written, scaleStart, lastWrite>>

\* read_namespaced_deployment_scale raises
ReadFail ==
    /\ pc = "eval" /\ phase = "read"
    /\ Finish(cur, ret, queue, "failed")
    /\ UNCHANGED <<config, k8s, clock, constructed, failed, last_scaling, cur, ret, now,
                   current_value, shape, replicas, written, calls, scaleStart,
                   lastWrite>>

\* read_namespaced_deployment_scale returns the deployment's replica count
ReadDone ==
    /\ pc = "eval" /\ phase = "read"
    /\ replicas' = k8s[cur]
    /\ LET n == k8s[cur] IN
       IF BelowLow(current_value)
       THEN IF CanScaleDown(n)
            THEN /\ written' = ScaleDownTarget(n)
                 /\ calls' = Append(calls, "write")
                 /\ phase' = "write"
                 /\ UNCHANGED <<pc, idx, queue, outcome, doneAt>>
            ELSE /\ Finish(cur, ret, queue, "floor")
                 /\ UNCHANGED <<written, calls>>
       ELSE IF CanScaleUp(n)
            THEN /\ written' = ScaleUpTarget(n)
                 /\ calls' = Append(calls, "write")
                 /\ phase' = "write"
                 /\ UNCHANGED <<pc, idx, queue, outcome, doneAt>>
            ELSE /\ Finish(cur, ret, queue, "ceiling")
                 /\ UNCHANGED <<written, calls>>
    /\ UNCHANGED <<config, k8s, clock, constructed, failed, last_scaling, cur, ret, now,
                   current_value, shape, scaleStart, lastWrite>>

\* WriteFail of a scale() that sets self.last_scaling before the write
WriteFailStamped ==
    /\ pc = "eval" /\ phase = "write"
    /\ \E applied \in BOOLEAN :
         k8s' = IF applied THEN [k8s EXCEPT ![cur] = written] ELSE k8s
    /\ last_scaling' = [last_scaling EXCEPT ![cur] = time_time]
    /\ Finish(cur, ret, queue, "failed")
    /\ UNCHANGED <<config, clock, constructed, failed, cur, ret, now,
                   current_value, shape, replicas, written, calls, scaleStart,
                   lastWrite>>

\* replace_namespaced_deployment_scale raises; the request may or may not
\* have been applied
WriteFail ==
    /\ pc = "eval" /\ phase = "write"
    /\ \E applied \in BOOLEAN :
         k8s' = IF applied THEN [k8s EXCEPT ![cur] = written] ELSE k8s
    /\ Finish(cur, ret, queue, "failed")
    /\ UNCHANGED <<config, clock, constructed, failed, last_scaling, cur, ret, now,
                   current_value, shape, replicas, written, calls, scaleStart,
                   lastWrite>>

\* ScalingTime of a scale() that stores the time read at the start of run()
ScalingTimeAtStart == now

\* what Scaler.scale stores in self.last_scaling after the write returned
ScalingTime == time_time

\* WriteDone of a Scaler class that keeps last_scaling as a class attribute,
\* shared by all scalers
WriteDoneShared ==
    /\ pc = "eval" /\ phase = "write"
    /\ k8s' = [k8s EXCEPT ![cur] = written]
    /\ last_scaling' = [t \in DOMAIN config |->
                           IF t \in constructed THEN ScalingTime
                           ELSE last_scaling[t]]
    /\ scaleStart' = [scaleStart EXCEPT ![cur] = now]
    /\ lastWrite' = [lastWrite EXCEPT ![cur] = time_time]
    /\ Finish(cur, ret, queue, "scaled")
    /\ UNCHANGED <<config, clock, constructed, failed, cur, ret, now, current_value,
                   shape, replicas, written, calls>>

\* replace_namespaced_deployment_scale returns; self.last_scaling = time.time()
WriteDone ==
    /\ pc = "eval" /\ phase = "write"
    /\ k8s' = [k8s EXCEPT ![cur] = written]
    /\ last_scaling' = [last_scaling EXCEPT ![cur] = ScalingTime]
    /\ scaleStart' = [scaleStart EXCEPT ![cur] = now]
    /\ lastWrite' = [lastWrite EXCEPT ![cur] = time_time]
    /\ Finish(cur, ret, queue, "scaled")
    /\ UNCHANGED <<config, clock, constructed, failed, cur, ret, now, current_value,
                   shape, replicas, written, calls>>

(***************************************************************************)
(* Time passes: while a blocking call is in flight, while the scheduler    *)
(* sleeps in delayfunc, between two items of the loop.                     *)
(***************************************************************************)
Tick ==
    /\ pc # "exit"
    /\ clock < MaxTime
    /\ clock' = clock + 1
    /\ UNCHANGED <<config, k8s, pc, idx, constructed, failed, last_scaling, queue,
                   runVars, scaleStart, lastWrite>>

Next ==
    \/ ConstructOk
    \/ ConstructFail
    \/ EnterScheduler
    \/ SchedRun
    \/ SchedExit
    \/ FetchFail
    \/ FetchDone
    \/ ReadFail
    \/ ReadDone
    \/ WriteFail
    \/ WriteDone
    \/ Tick

Spec == Init /\ [][Next]_vars

\* the same program with one target, the autoscaler the only writer of the
\* deployment's replica count
SpecOne == InitOne /\ [][Next]_vars

(***************************************************************************)
(* Another actor (kubectl scale, another controller) sets the replica      *)
(* count of a deployment, at any moment, also between the read and the     *)
(* write of a run.                                                         *)
(***************************************************************************)
ExternalScale ==
    /\ pc # "exit"
    /\ \E t \in DOMAIN config, n \in 0..MaxK8s :
         /\ n # k8s[t]
         /\ k8s' = [k8s EXCEPT ![t] = n]
    /\ UNCHANGED <<config, clock, pc, idx, constructed, failed, last_scaling, queue,
                   runVars, scaleStart, lastWrite>>

NextExt == Next \/ ExternalScale

\* the program with one target whose deployment is also scaled by others
SpecExt == InitExt /\ [][NextExt]_vars

(***************************************************************************)
(* Vocabulary of the properties.                                           *)
(***************************************************************************)
\* a run of scaler cur' starts in this step
StartStep == pc # "eval" /\ (pc' = "eval" \/ queue' # queue)

\* a run of scaler cur' ends in this step
EndStep == outcome' \in Terminal /\ (pc = "eval" \/ StartStep)

\* the pending events of scaler t in q, in order
EntriesOf(q, t) == SelectSeq(q, LAMBDA e : e.scaler = t)

\* some pending event of a scaler other than the running one is due
OtherDue == \E k \in DOMAIN queue : queue[k].scaler # cur /\ queue[k].time <= monotonic

(***************************************************************************)
(* C1: after a successful scale by a run that started at now1, every later *)
(* run of that target that starts before now1 + backoff makes no metric    *)
(* fetch, no replica read and no replica write; and two successful writes  *)
(* on one target are at least backoff apart.                               *)
(***************************************************************************)
C1_BackoffNoContact ==
    [][ /\ ( /\ StartStep
             /\ scaleStart[cur'] # 0
             /\ now' < scaleStart[cur'] + backoff(cur') )
           => ( /\ calls' = <<>>
                /\ outcome' = "backoff"
                /\ k8s' = k8s )
        /\ ( /\ pc = "eval"
             /\ outcome' = "scaled"
             /\ lastWrite[cur] # 0 )
           => lastWrite'[cur] - lastWrite[cur] >= backoff(cur)
      ]_vars

\* a run that started less than backoff after the start of a scaling run
\* of its target has ended
C1_Witness ==
    /\ outcome = "backoff"
    /\ backoff(cur) > 0
    /\ scaleStart[cur] # 0
    /\ now > scaleStart[cur]
    /\ now < scaleStart[cur] + backoff(cur)

(***************************************************************************)
(* C2 as stated: whenever another target's tick is due while a run is in   *)
(* progress, the due run can start without waiting for the run in progress *)
(***************************************************************************)
C2_Original == (pc = "eval" /\ OtherDue) => ENABLED SchedRun

(***************************************************************************)
(* C2 amended: runs are serialised on the one scheduler thread: while a    *)
(* run is in progress no other run can start, also not one that is due; it *)
(* starts only once the run in progress has ended and was re-armed.        *)
(***************************************************************************)
C2_Serialised ==
    /\ pc = "eval" => ~ENABLED SchedRun
    /\ (pc = "sched" /\ \E k \in DOMAIN queue : queue[k].time <= monotonic)
         => ENABLED SchedRun

\* target B is due while the run of target A waits on a blocking call
C2_Witness == pc = "eval" /\ OtherDue

(***************************************************************************)
(* C3: every run of a constructed target, returned or raised, is followed  *)
(* by exactly one re-arming of that target, for the time of the run's end  *)
(* plus interval; the failure does not propagate (control is back at the   *)
(* caller) and the pending events of the other targets are unchanged.      *)
(***************************************************************************)
C3_Rearm ==
    [][ EndStep =>
          /\ EntriesOf(queue', cur') =
                <<[time |-> clock' + interval, scaler |-> cur']>>
          /\ doneAt' = clock'
          /\ \A t \in DOMAIN config :
                t # cur' => EntriesOf(queue', t) = EntriesOf(queue, t)
          /\ pc' = ret'
          /\ pc' \in {"init", "sched"}
      ]_vars

\* a run that raised after time had passed has ended, another target pending
C3_Witness ==
    /\ outcome = "failed"
    /\ doneAt + Epoch > now
    /\ Len(queue) = 2
    /\ queue[2] = [time |-> doneAt + interval, scaler |-> cur]

(***************************************************************************)
(* C4 as stated: started with any list of target specifications, also an   *)
(* empty one or one of which every target fails construction, the          *)
(* scheduling loop never returns.                                          *)
(***************************************************************************)
C4_Original == pc # "exit"

(***************************************************************************)
(* C4 amended: the scheduling loop never returns once at least one target  *)
(* was constructed; with no constructed target (empty list, or every       *)
(* construction failed) the queue is empty and scheduler.run returns.      *)
(***************************************************************************)
C4_NeverReturns ==
    /\ constructed # {} => pc # "exit"
    /\ (pc = "sched" /\ constructed # {}) => ~ENABLED SchedExit
    /\ (pc = "sched" /\ constructed = {}) => ENABLED SchedExit

\* the scheduler has run a target that failed, at the end of the time modelled
C4_Witness ==
    /\ pc = "sched"
    /\ ret = "sched"
    /\ outcome = "failed"
    /\ clock = MaxTime

(***************************************************************************)
(* C5 as stated: a target that fails construction is never scheduled,      *)
(* every sibling whose construction succeeds, before or after it in the    *)
(* list, is scheduled and run, and the process does not exit.              *)
(***************************************************************************)
C5_Isolation ==
    /\ \A i \in failed :
          /\ EntriesOf(queue, i) = <<>>
          /\ cur # i
          /\ last_scaling[i] = Unset
    /\ \A i \in DOMAIN config :
          i < idx => i \in constructed \cup failed
    /\ pc \in {"sched", "exit"} => idx = Len(config) + 1
    /\ \A j \in constructed :
          IF pc = "eval" /\ cur = j
          THEN EntriesOf(queue, j) = <<>>
          ELSE Len(EntriesOf(queue, j)) = 1

C5_Original == C5_Isolation /\ (failed # {} => pc # "exit")

(***************************************************************************)
(* C5 amended: as stated, but the process does not exit provided at least  *)
(* one sibling was constructed; when every target of the list failed       *)
(* construction, the scheduling loop returns and the process ends.         *)
(***************************************************************************)
C5_FatalToTargetOnly ==
    /\ C5_Isolation
    /\ (failed # {} /\ constructed # {}) => pc # "exit"

\* a failed target with a sibling constructed after it, run by the scheduler
C5_Witness ==
    /\ 1 \in failed
    /\ 2 \in constructed
    /\ pc = "sched"
    /\ ret = "sched"
    /\ cur = 2
    /\ outcome \in Terminal

\* a failed target with a sibling constructed before it, run by the scheduler
C5_WitnessBefore ==
    /\ 2 \in failed
    /\ 1 \in constructed
    /\ pc = "sched"
    /\ ret = "sched"
    /\ cur = 1
    /\ outcome \in Terminal

(***************************************************************************)
(* C6: a run in which the metric fetch, the replica read or the replica    *)
(* write fails leaves last_scaling unchanged; so a run is in backoff only  *)
(* on account of an earlier successful write of its target, never of a     *)
(* failed attempt.                                                         *)
(***************************************************************************)
C6_FailureKeepsLastScaling ==
    [][ /\ (pc = "eval" /\ outcome' = "failed") => last_scaling' = last_scaling
        /\ (StartStep /\ outcome' = "backoff") =>
              /\ lastWrite[cur'] # 0
              /\ last_scaling[cur'] = lastWrite[cur']
              /\ now' <= lastWrite[cur'] + backoff(cur')
      ]_vars

\* a write has failed on a target that never scaled
C6_Witness ==
    /\ outcome = "failed"
    /\ calls = <<"fetch", "read", "write">>
    /\ last_scaling[cur] = 0
    /\ backoff(cur) > 0

(***************************************************************************)
(* C7: last_scaling is 0 when the Scaler is constructed, never decreases,  *)
(* and changes only in the step in which a replica write of the same run   *)
(* returns successfully; runs that end in backoff, without data, in a hold *)
(* or in a failure do not change it.                                       *)
(***************************************************************************)
C7_LastScalingMonotonic ==
    [][ \A t \in DOMAIN config :
          /\ (t \in constructed' /\ t \notin constructed) => last_scaling'[t] = 0
          /\ t \notin constructed' => last_scaling'[t] = Unset
          /\ t \in constructed =>
                /\ last_scaling'[t] >= last_scaling[t]
                /\ last_scaling'[t] # last_scaling[t] =>
                      /\ pc = "eval" /\ phase = "write" /\ cur = t
                      /\ outcome' = "scaled"
                      /\ calls' = <<"fetch", "read", "write">>
                      /\ k8s'[t] = written
      ]_vars

\* a target has scaled a second time
C7_Witness ==
    /\ outcome = "scaled"
    /\ last_scaling[cur] > now
    /\ scaleStart[cur] > Epoch + interval

(***************************************************************************)
(* C8 as stated: after a successful scale last_scaling is the time read at *)
(* the start of the run, for the backoff test.                             *)
(***************************************************************************)
C8_Original == outcome = "scaled" => last_scaling[cur] = now

(***************************************************************************)
(* C8 amended: after a successful scale last_scaling is the time read      *)
(* after the replica write has returned, which is not before, and may be   *)
(* after, the time read at the start of the run: backoff is measured from  *)
(* the completion of the write.                                            *)
(***************************************************************************)
C8_ScalingTimeAtCompletion ==
    outcome = "scaled" =>
        /\ last_scaling[cur] = doneAt + Epoch
        /\ last_scaling[cur] >= now

\* a run has scaled, and time had passed since its start
C8_Witness == outcome = "scaled" /\ last_scaling[cur] > now

(***************************************************************************)
(* C9 as stated: a run is in backoff exactly when                          *)
(* now < last_scaling + backoff, and fetches the metric otherwise.         *)
(***************************************************************************)
C9_Original ==
    (cur # 0 /\ outcome # "scaled") =>
        /\ outcome = "backoff" <=> now < last_scaling[cur] + backoff(cur)
        /\ outcome # "backoff" => calls[1] = "fetch"

(***************************************************************************)
(* C9 amended: a run is in backoff exactly when                            *)
(* now <= last_scaling + backoff: at now = last_scaling + backoff it is    *)
(* still in backoff; for now > last_scaling + backoff it fetches the       *)
(* metric.                                                                 *)
(***************************************************************************)
C9_BackoffBoundary ==
    (cur # 0 /\ outcome # "scaled") =>
        /\ outcome = "backoff" <=> now <= last_scaling[cur] + backoff(cur)
        /\ outcome = "backoff" => calls = <<>>
        /\ outcome # "backoff" => calls[1] = "fetch"

\* a run that started at exactly last_scaling + backoff
C9_Witness ==
    /\ outcome = "backoff"
    /\ backoff(cur) > 0
    /\ now = last_scaling[cur] + backoff(cur)

\* the fetched metric data is no window, several windows or one empty window
Insufficient(sh) == sh[1] = 0 \/ sh[1] > 1 \/ (sh[1] = 1 /\ sh[2] = 0)

(***************************************************************************)
(* C10: when the metric fetch returns no window, more than one window or   *)
(* one empty window, the run ends as insufficient data: no replica read,   *)
(* no replica write, last_scaling unchanged, no failure raised.            *)
(***************************************************************************)
C10_InsufficientData ==
    [][ (pc = "eval" /\ phase = "fetch" /\ Insufficient(shape')) =>
          /\ outcome' = "nodata"
          /\ current_value' = None
          /\ calls' = <<"fetch">>
          /\ replicas' = None /\ written' = None
          /\ k8s' = k8s
          /\ last_scaling' = last_scaling
          /\ pc' = ret
      ]_vars

\* a fetch has returned more than one window
C10_Witness == outcome = "nodata" /\ shape[1] > 1

(***************************************************************************)
(* C11: in every run not in backoff whose mean metric value is below       *)
(* low_value and whose reported replica count is above min_replicas, the   *)
(* write is issued with exactly the reported count - 1, which is never     *)
(* below min_replicas.                                                     *)
(***************************************************************************)
C11_ScaleDown ==
    [][ /\ ( /\ pc = "eval" /\ phase = "read"
             /\ BelowLow(current_value)
             /\ replicas' # None
             /\ replicas' > min_replicas )
           => ( /\ phase' = "write"
                /\ calls' = <<"fetch", "read", "write">>
                /\ written' = replicas' - 1
                /\ written' >= min_replicas )
        /\ ( /\ pc = "eval" /\ phase = "write" /\ phase' = Idle
             /\ BelowLow(current_value) )
           => ( /\ k8s'[cur] \in {k8s[cur], replicas - 1}
                /\ outcome' = "scaled" => k8s'[cur] = replicas - 1
                /\ replicas - 1 >= min_replicas )
      ]_vars

\* a run has scaled a deployment down by one
C11_Witness ==
    /\ outcome = "scaled"
    /\ BelowLow(current_value)
    /\ replicas > min_replicas
    /\ written = replicas - 1
    /\ k8s[cur] = written

(***************************************************************************)
(* C12: in every run not in backoff whose mean metric value is above       *)
(* high_value and whose reported replica count is below max_replicas, the  *)
(* write is issued with exactly the reported count + 1, which is never     *)
(* above max_replicas.                                                     *)
(***************************************************************************)
C12_ScaleUp ==
    [][ /\ ( /\ pc = "eval" /\ phase = "read"
             /\ AboveHigh(current_value)
             /\ replicas' # None
             /\ replicas' < max_replicas )
           => ( /\ phase' = "write"
                /\ calls' = <<"fetch", "read", "write">>
                /\ written' = replicas' + 1
                /\ written' <= max_replicas )
        /\ ( /\ pc = "eval" /\ phase = "write" /\ phase' = Idle
             /\ AboveHigh(current_value) )
           => ( /\ k8s'[cur] \in {k8s[cur], replicas + 1}
                /\ outcome' = "scaled" => k8s'[cur] = replicas + 1
                /\ replicas + 1 <= max_replicas )
      ]_vars

\* a run has scaled a deployment up by one
C12_Witness ==
    /\ outcome = "scaled"
    /\ AboveHigh(current_value)
    /\ replicas < max_replicas
    /\ written = replicas + 1
    /\ k8s[cur] = written

(***************************************************************************)
(* C13: a run whose mean metric value lies strictly between low_value and  *)
(* high_value holds, whatever the replica counts: no replica read, no      *)
(* replica write, last_scaling unchanged.                                  *)
(***************************************************************************)
C13_HoldWithinBounds ==
    [][ ( /\ pc = "eval" /\ phase = "fetch"
          /\ current_value' # None
          /\ current_value' > low_value * Unit
          /\ current_value' < high_value * Unit )
        => ( /\ outcome' = "hold"
             /\ calls' = <<"fetch">>
             /\ replicas' = None /\ written' = None
             /\ k8s' = k8s
             /\ last_scaling' = last_scaling )
      ]_vars

\* a run has held with a mean strictly between the bounds, the deployment
\* being outside its replica bounds
C13_Witness ==
    /\ outcome = "hold"
    /\ current_value > low_value * Unit
    /\ current_value < high_value * Unit
    /\ k8s[cur] > max_replicas

\* the values of last_scaling and k8s a run that holds must leave alone
Untouched == last_scaling' = last_scaling /\ k8s' = k8s

(***************************************************************************)
(* C14: bound reached: a run whose mean is above high_value with the       *)
(* reported count at or above max_replicas, or below low_value with the    *)
(* reported count at or below min_replicas, holds: no replica write,       *)
(* last_scaling unchanged, so the next run is not put into backoff by it.  *)
(***************************************************************************)
C14_BoundReached ==
    [][ ( /\ pc = "eval" /\ phase = "read"
          /\ replicas' # None
          /\ \/ AboveHigh(current_value) /\ replicas' >= max_replicas
             \/ BelowLow(current_value) /\ replicas' <= min_replicas )
        => ( /\ outcome' \in {"floor", "ceiling"}
             /\ outcome' = "ceiling" <=> AboveHigh(current_value)
             /\ calls' = <<"fetch", "read">>
             /\ written' = None
             /\ Untouched
             /\ pc' = ret )
      ]_vars

\* a run has held at the ceiling with a count above max_replicas
C14_Witness ==
    /\ outcome = "ceiling"
    /\ AboveHigh(current_value)
    /\ replicas > max_replicas
    /\ calls = <<"fetch", "read">>

\* a run has held at the floor with a count below min_replicas
C14_WitnessFloor ==
    /\ outcome = "floor"
    /\ BelowLow(current_value)
    /\ replicas < min_replicas

(***************************************************************************)
(* Unbounded time.  At clock = MaxTime the clock advances by moving every  *)
(* stored time one unit into the past instead.  A last_scaling already at  *)
(* 0 stays: it is more than MaxBackoff before any time_time, since         *)
(* Epoch > MaxBackoff.  The queue entries that are then due keep only      *)
(* their order (0, -1, ... with equal times staying equal): the scheduler  *)
(* reads no more of them.  now, doneAt, scaleStart and lastWrite are read  *)
(* by no action and keep their values.                                     *)
(***************************************************************************)
Past(x) == IF x > 0 THEN x - 1 ELSE x

PastEntry(q, k) ==
    IF q[k].time - 1 > 0
    THEN q[k].time - 1
    ELSE 0 - Cardinality({q[j].time : j \in {i \in DOMAIN q : q[i].time - 1 <= 0
                                                           /\ q[i].time > q[k].time}})

Shift ==
    /\ pc # "exit"
    /\ clock = MaxTime
    /\ queue' = [k \in DOMAIN queue |-> [queue[k] EXCEPT !.time = PastEntry(queue, k)]]
    /\ last_scaling' = [t \in DOMAIN config |-> Past(last_scaling[t])]
    /\ UNCHANGED <<config, k8s, clock, pc, idx, constructed, failed, runVars,
                   scaleStart, lastWrite>>

NextLive == Next \/ Shift

\* two targets, one without backoff and one with the longest; the origin of
\* time.monotonic is arbitrary, and here the process starts one unit before
\* the clock reaches MaxTime
InitLive ==
    /\ config = <<[backoff |-> 0], [backoff |-> MaxBackoff]>>
    /\ k8s = [t \in DOMAIN config |-> min_replicas]
    /\ clock = MaxTime - 1
    /\ InitProgram

\* The process is the only thread and runs whenever it can; every call to
\* the metric source and to the orchestrator returns or raises; time passes.
Fairness ==
    /\ WF_vars(ConstructOk \/ ConstructFail)
    /\ WF_vars(EnterScheduler)
    /\ WF_vars(SchedRun)
    /\ WF_vars(SchedExit)
    /\ WF_vars(FetchFail \/ FetchDone)
    /\ WF_vars(ReadFail \/ ReadDone)
    /\ WF_vars(WriteFail \/ WriteDone)
    /\ WF_vars(Tick \/ Shift)

LiveSpec == InitLive /\ [][NextLive]_vars /\ Fairness

(***************************************************************************)
(* C15: within one run the external calls are, in this order and each at   *)
(* most once, the metric fetch, the replica read, the replica write, and   *)
(* then the update of last_scaling: a write only after a read that         *)
(* returned and a fetch that returned exactly one non-empty window, a read *)
(* only when the mean is below low_value or above high_value.              *)
(***************************************************************************)
C15_CallOrder ==
    [][ /\ calls' \in {<<>>, <<"fetch">>, <<"fetch", "read">>,
                       <<"fetch", "read", "write">>}
        /\ Len(calls') >= 2 =>
              /\ shape'[1] = 1 /\ shape'[2] >= 1
              /\ current_value' # None
              /\ \/ current_value' < low_value * Unit
                 \/ current_value' > high_value * Unit
        /\ Len(calls') = 3 => (replicas' # None /\ written' # None)
        /\ Len(calls') < 3 => written' = None
        /\ (pc = "eval" /\ cur' = cur /\ outcome = "running") =>
              /\ Len(calls') <= Len(calls) + 1
              /\ SubSeq(calls', 1, Len(calls)) = calls
        /\ last_scaling' # last_scaling =>
              \/ (pc = "init" /\ last_scaling[idx] = Unset)
              \/ /\ phase = "write"
                 /\ calls = <<"fetch", "read", "write">>
                 /\ calls' = calls
      ]_vars

\* a run has made all three calls and updated last_scaling
C15_Witness ==
    /\ outcome = "scaled"
    /\ calls = <<"fetch", "read", "write">>
    /\ last_scaling[cur] = doneAt + Epoch

(***************************************************************************)
(* C16 as stated: every replica count written lies within                  *)
(* [min_replicas, max_replicas], whatever count was reported.              *)
(***************************************************************************)
C16_Original ==
    written # None => (min_replicas <= written /\ written <= max_replicas)

(***************************************************************************)
(* C16 amended: every replica count written is the reported count - 1 and  *)
(* at least min_replicas, or the reported count + 1 and at most            *)
(* max_replicas; it lies within [min_replicas, max_replicas] whenever the  *)
(* reported count does.  The count is not clamped: a reported count above  *)
(* max_replicas + 1 is stepped down to a count still above max_replicas.   *)
(***************************************************************************)
C16_StepWithinOneBound ==
    written # None =>
        /\ \/ /\ current_value < low_value * Unit
              /\ written = replicas - 1
              /\ written >= min_replicas
           \/ /\ current_value > high_value * Unit
              /\ written = replicas + 1
              /\ written <= max_replicas
        /\ (min_replicas <= replicas /\ replicas <= max_replicas)
              => (min_replicas <= written /\ written <= max_replicas)

\* a count above max_replicas has been written
C16_Witness ==
    /\ outcome = "scaled"
    /\ replicas > max_replicas + 1
    /\ written > max_replicas
    /\ k8s[cur] = written

(***************************************************************************)
(* C17: a run of one target changes only that target's state: no other     *)
(* target's last_scaling, no target's configuration, and no other          *)
(* target's deployment; it reads the replica count of its own deployment.  *)
(***************************************************************************)
C17_OwnStateOnly ==
    [][ /\ config' = config
        /\ (pc = "eval" \/ StartStep) =>
              \A t \in DOMAIN config :
                 t # cur' =>
                    /\ last_scaling'[t] = last_scaling[t]
                    /\ k8s'[t] = k8s[t]
                    /\ scaleStart'[t] = scaleStart[t]
        /\ (pc = "eval" /\ phase = "read" /\ replicas' # None) =>
              replicas' = k8s[cur]
        /\ (pc = "eval" /\ phase = "write" /\ k8s' # k8s) =>
              k8s' = [k8s EXCEPT ![cur] = written]
      ]_vars

\* the second target has scaled, the first was constructed and never scaled
C17_Witness ==
    /\ outcome = "scaled"
    /\ cur = 2
    /\ 1 \in constructed
    /\ last_scaling[1] = 0
    /\ last_scaling[2] > 0
    /\ k8s[1] # k8s[2]

(***************************************************************************)
(* C18: a replica count that starts within [min_replicas, max_replicas]    *)
(* and that only the autoscaler changes stays within these bounds, and no  *)
(* run changes it by more than 1.                                          *)
(***************************************************************************)
C18_StaysWithinBounds ==
    [][ \A t \in DOMAIN config :
          /\ min_replicas <= k8s'[t] /\ k8s'[t] <= max_replicas
          /\ k8s'[t] - k8s[t] \in {-1, 0, 1}
          /\ k8s'[t] # k8s[t] =>
                (pc = "eval" /\ phase = "write" /\ cur = t /\ phase' = Idle)
      ]_vars

\* a run has scaled a deployment from one of its bounds
C18_Witness ==
    /\ outcome = "scaled"
    /\ replicas \in {min_replicas, max_replicas}
    /\ k8s[cur] = written
    /\ k8s[cur] # replicas

(***************************************************************************)
(* C19: when every call returns or raises and the clock advances, every    *)
(* successfully constructed target is evaluated again and again, whatever  *)
(* runs of it or of another target fail.                                   *)
(***************************************************************************)
C19_EvaluatedInfinitelyOften ==
    \A t \in 1..2 :
        \/ <>[](t \notin constructed)
        \/ []<><<StartStep /\ cur' = t>>_vars

\* a run the scheduler started has failed after the clock reached MaxTime and
\* its target is queued again, while the other target is constructed too
C19_Witness ==
    /\ pc = "sched" /\ ret = "sched"
    /\ outcome = "failed"
    /\ clock = MaxTime
    /\ constructed = {1, 2}
    /\ \E k \in DOMAIN queue :
         queue[k].scaler = cur /\ queue[k].time = monotonic + interval

TypeOK ==
    /\ pc \in {"init", "eval", "sched", "exit"}
    /\ cur \in {0} \cup DOMAIN config
    /\ outcome \in Terminal \cup {Idle, "running"}
    /\ clock \in 0..MaxTime

====
